---- MODULE Spec2Model ----
(***************************************************************************)
(* Model of the car-wash booking bot (src/CarWashBerezivka.py).            *)
(*                                                                         *)
(* Time is counted in whole minutes since midnight of day 0; a date is a   *)
(* day index and a datetime is  date * MinutesPerDay + minute of the day.  *)
(* A "%H:%M" string is modelled by the number HHMM (10:30 is 1030), so     *)
(* strftime and strptime are real conversions and not the identity.        *)
(* Handlers are coroutines: they interleave at their awaits, and the       *)
(* model splits start_wash, finish_wash and the last wizard step at the    *)
(* database calls that separate a read from the write that depends on it.  *)
(***************************************************************************)
EXTENDS Integers, Sequences, FiniteSets, TLC

\* ---------------------------------------------------------------- constants
BUFFER_MINUTES == 1
WORK_START_HOUR == 9
WORK_END_HOUR == 21
MAIN_ADMIN_ID == 863294823

MinutesPerHour == 60
MinutesPerDay == 24 * MinutesPerHour

\* SQL NULL / Python None / a key that is absent from a session dict
NULL == 0 - 1

\* ------------------------------------------------------------------- bounds
MaxBookings == 2      \* rows the wizard may insert (ids 1..MaxBookings)
NumCustomers == 2     \* customers 1..NumCustomers
NumHandlers == 2      \* handler coroutines that may be in flight
MaxTicks == 3         \* how often the clock advances
MaxDay == 2           \* dates 0..MaxDay can be typed into the wizard
MaxRows == 2          \* rows of a booking table that is drawn, not built

Today == 1
TickMinutes == 3 * 15
T0 == Today * MinutesPerDay + WORK_START_HOUR * MinutesPerHour + 15

Customers == 1..NumCustomers
Handlers == 1..NumHandlers
Callers == {MAIN_ADMIN_ID} \cup Customers
Statuses == {"scheduled", "in_progress", "finished"}

\* ------------------------------------------------------------------ helpers
Max(a, b) == IF a >= b THEN a ELSE b

\* datetime.date()
DateOf(dt) == dt \div MinutesPerDay

\* datetime.time() as minute of the day
TimeOf(dt) == dt % MinutesPerDay

\* datetime.combine(date, time)
Combine(date, minuteOfDay) == date * MinutesPerDay + minuteOfDay

\* start.strftime("%H:%M")
strftime(dt) == (TimeOf(dt) \div MinutesPerHour) * 100 + (TimeOf(dt) % MinutesPerHour)

\* datetime.strptime(text, "%H:%M").time()
strptime(hhmm) == (hhmm \div 100) * MinutesPerHour + (hhmm % 100)

\* strptime raises ValueError unless the text is a time of day
IsTimeText(hhmm) == hhmm >= 0 /\ hhmm \div 100 < 24 /\ hhmm % 100 < MinutesPerHour

Contains(seq, x) == \E i \in 1..Len(seq) : seq[i] = x

\* -------------------------------------------------------- get_available_hours
\* int(rec["pdur"] or 0) of the LEFT JOIN: the duration of the row's program,
\* zero when the program is gone.
Pdur(progs, rec) ==
    IF rec.program_id \in DOMAIN progs THEN progs[rec.program_id] ELSE 0

\* b_start of the loop body, before the buffer is applied
BStart(rec) ==
    IF rec.status \in {"in_progress", "finished"}
    THEN (IF rec.actual_start # NULL THEN rec.actual_start ELSE rec.booking_datetime)
    ELSE rec.booking_datetime

\* BEnd that takes actual_end whenever it is set, whatever the status
BEnd_actual_first(progs, rec) ==
    IF rec.actual_end # NULL THEN rec.actual_end
    ELSE IF rec.status \in {"in_progress", "finished"}
    THEN BStart(rec) + Pdur(progs, rec)
    ELSE rec.booking_datetime + Pdur(progs, rec)

\* b_end of the loop body, before the buffer is applied
BEnd(progs, rec) ==
    IF rec.status \in {"in_progress", "finished"}
    THEN (IF rec.actual_end # NULL THEN rec.actual_end
          ELSE BStart(rec) + Pdur(progs, rec))
    ELSE rec.booking_datetime + Pdur(progs, rec)

\* Overlaps with the buffer left out
Overlaps_no_buffer(progs, rec, start, end) ==
    ~(end <= BStart(rec) \/ start >= BEnd(progs, rec))

\* the test of line 239 for one row
Overlaps(progs, rec, start, end) ==
    LET b_start == BStart(rec) - BUFFER_MINUTES
        b_end == BEnd(progs, rec) + BUFFER_MINUTES
    IN ~(end <= b_start \/ start >= b_end)

\* SELECT ... WHERE b.booking_datetime::date = $1, rows in id order
RECURSIVE FetchBooked(_, _, _, _)
FetchBooked(bks, date, i, last) ==
    IF i > last THEN <<>>
    ELSE (IF i \in DOMAIN bks /\ DateOf(bks[i].booking_datetime) = date
          THEN <<bks[i]>> ELSE <<>>) \o FetchBooked(bks, date, i + 1, last)

\* HasConflict that stops after the first row whatever the test says
HasConflict_first_row(progs, booked, start, end, i) ==
    IF i > Len(booked) THEN FALSE
    ELSE Overlaps(progs, booked[i], start, end)

\* the inner loop "for rec in booked" with its break
RECURSIVE HasConflict(_, _, _, _, _)
HasConflict(progs, booked, start, end, i) ==
    IF i > Len(booked) THEN FALSE
    ELSE IF Overlaps(progs, booked[i], start, end) THEN TRUE
    ELSE HasConflict(progs, booked, start, end, i + 1)

\* the outer loop "for start in candidate_starts", h in range(9, 21)
RECURSIVE ScanCandidates(_, _, _, _, _, _, _)
ScanCandidates(progs, booked, day_start, duration, min_allowed_start, work_end, h) ==
    IF h >= WORK_END_HOUR THEN <<>>
    ELSE LET start == day_start + h * MinutesPerHour
             end == start + duration
             keep == /\ ~(start < min_allowed_start)
                     /\ ~(end > work_end)
                     /\ ~HasConflict(progs, booked, start, end, 1)
         IN (IF keep THEN <<strftime(start)>> ELSE <<>>)
            \o ScanCandidates(progs, booked, day_start, duration,
                              min_allowed_start, work_end, h + 1)

\* LastId of a table whose ids have no gaps
LastId_count(bks) == Cardinality(DOMAIN bks)

\* the highest id of the table: the rows are read in id order up to it
LastId(bks) == IF DOMAIN bks = {} THEN 0 ELSE CHOOSE i \in DOMAIN bks : \A j \in DOMAIN bks : j <= i

\* get_available_hours without the minimum start of the current day
get_available_hours_any_start(progs, bks, t, program_id, booking_date) ==
    IF program_id \notin DOMAIN progs THEN <<>>
    ELSE LET day_start == booking_date * MinutesPerDay
         IN ScanCandidates(progs, FetchBooked(bks, booking_date, 1, LastId(bks)),
                           day_start, progs[program_id],
                           day_start + WORK_START_HOUR * MinutesPerHour,
                           day_start + WORK_END_HOUR * MinutesPerHour,
                           WORK_START_HOUR)

get_available_hours(progs, bks, t, program_id, booking_date) ==
    IF program_id \notin DOMAIN progs THEN <<>>
    ELSE LET duration == progs[program_id]
             day_start == booking_date * MinutesPerDay
             work_start == day_start + WORK_START_HOUR * MinutesPerHour
             work_end == day_start + WORK_END_HOUR * MinutesPerHour
             min_allowed_start ==
                 IF booking_date = DateOf(t)
                 THEN Max(work_start, t + BUFFER_MINUTES)
                 ELSE work_start
             booked == FetchBooked(bks, booking_date, 1, LastId(bks))
         IN ScanCandidates(progs, booked, day_start, duration,
                           min_allowed_start, work_end, WORK_START_HOUR)

\* -------------------------------------------------------------------- state
VARIABLES
    now,            \* datetime.now() / SQL NOW()
    programs,       \* table programs: id -> duration in minutes
    admins,         \* table admins
    bookings,       \* table bookings: id -> row
    next_id,        \* the SERIAL sequence of bookings.id
    user_booking,   \* the wizard sessions, customer -> dict
    inflight,       \* process_booking coroutines past the phone step
    handlers,       \* handler coroutines between two awaits
    tasks,          \* deferred early-arrival notifications (asyncio tasks)
    sent,           \* the message the last step handed to bot.send_message
    answer          \* the message.answer() of the last step: text, reply keyboard

vars == <<now, programs, admins, bookings, next_id, user_booking, inflight,
          handlers, tasks, sent, answer>>

\* a phone text is kept as what the code looks at: whether it starts with
\* "+" and how many digits it holds
NoPhone == [plus |-> FALSE, digits |-> 0]

\* user_booking[u] when u has no session
NoSession ==
    [active |-> FALSE, program_id |-> NULL, booking_date |-> NULL,
     booking_time |-> NULL, car_number |-> "", phone_number |-> NoPhone]

\* user_booking[u] = {}
EmptySession == [NoSession EXCEPT !.active = TRUE]

NoInsert == [pc |-> "none", data |-> NoSession]
Idle == [pc |-> "idle", id |-> NULL]
Say(text) == [text |-> text, keyboard |-> <<>>]
NoMessage == [to |-> NULL, about |-> "", id |-> NULL, car_number |-> "", ok |-> TRUE]

Init ==
    /\ now = T0
    /\ programs = (1 :> 60) @@ (2 :> 90)
    /\ admins = {1}
    /\ bookings = <<>>
    /\ next_id = 1
    /\ user_booking = [u \in Customers |-> NoSession]
    /\ inflight = [u \in Customers |-> NoInsert]
    /\ handlers = [h \in Handlers |-> Idle]
    /\ tasks = {}
    /\ sent = NoMessage
    /\ answer = Say("")

\* is_admin
is_admin(user_id) == user_id = MAIN_ADMIN_ID \/ user_id \in admins

\* the clock
Tick ==
    /\ now + TickMinutes <= T0 + MaxTicks * TickMinutes
    /\ now' = now + TickMinutes
    /\ UNCHANGED <<programs, admins, bookings, next_id, user_booking,
                   inflight, handlers, tasks>>
    /\ sent' = NoMessage
    /\ answer' = Say("")

\* ------------------------------------------------------------ booking wizard
\* /book
book_program(u) ==
    /\ IF DOMAIN programs = {}
       THEN /\ answer' = Say("no programs")
            /\ UNCHANGED user_booking
       ELSE /\ answer' = Say("choose program")
            /\ user_booking' = [user_booking EXCEPT ![u] = EmptySession]
    /\ UNCHANGED <<now, programs, admins, bookings, next_id, inflight,
                   handlers, tasks>>
    /\ sent' = NoMessage

\* process_booking, step 1: text is the number before " - ", NULL when the
\* text does not start with a number
ProcessProgram(u, text) ==
    /\ user_booking[u].active
    /\ user_booking[u].program_id = NULL
    /\ IF text = NULL
       THEN /\ answer' = Say("choose program by button")
            /\ UNCHANGED user_booking
       ELSE /\ user_booking' = [user_booking EXCEPT ![u].program_id = text]
            /\ answer' = Say("choose date")
    /\ UNCHANGED <<now, programs, admins, bookings, next_id, inflight,
                   handlers, tasks>>
    /\ sent' = NoMessage

\* process_booking, step 2: date is the parsed "%d.%m.%Y" text, NULL when it
\* does not parse
ProcessDate(u, date) ==
    /\ user_booking[u].active
    /\ user_booking[u].program_id # NULL
    /\ user_booking[u].booking_date = NULL
    /\ IF date = NULL \/ date < DateOf(now)
       THEN /\ answer' = Say("bad date")
            /\ UNCHANGED user_booking
       ELSE LET hours == get_available_hours(programs, bookings, now,
                                             user_booking[u].program_id, date)
            IN IF hours = <<>>
               THEN /\ answer' = Say("no free hours")
                    /\ UNCHANGED user_booking
               ELSE /\ answer' = [text |-> "choose hour", keyboard |-> hours]
                    /\ user_booking' = [user_booking EXCEPT ![u].booking_date = date]
    /\ UNCHANGED <<now, programs, admins, bookings, next_id, inflight,
                   handlers, tasks>>
    /\ sent' = NoMessage

\* process_booking, step 3: text is the "%H:%M" text of the message
ProcessTime(u, text) ==
    /\ user_booking[u].active
    /\ user_booking[u].program_id # NULL
    /\ user_booking[u].booking_date # NULL
    /\ user_booking[u].booking_time = NULL
    /\ LET hours == get_available_hours(programs, bookings, now,
                                        user_booking[u].program_id,
                                        user_booking[u].booking_date)
       IN IF ~Contains(hours, text)
          THEN /\ answer' = Say("hour taken")
               /\ UNCHANGED user_booking
          ELSE /\ user_booking' = [user_booking EXCEPT ![u].booking_time = text]
               /\ answer' = Say("enter car number")
    /\ UNCHANGED <<now, programs, admins, bookings, next_id, inflight,
                   handlers, tasks>>
    /\ sent' = NoMessage

\* process_booking, step 2 up to the await of get_available_hours: the date is
\* stored in the session and the arguments of the call are evaluated
ProcessDateBegin(h, u, date) ==
    /\ handlers[h].pc = "idle"
    /\ user_booking[u].active
    /\ user_booking[u].program_id # NULL
    /\ user_booking[u].booking_date = NULL
    /\ IF date = NULL \/ date < DateOf(now)
       THEN /\ answer' = Say("bad date")
            /\ UNCHANGED <<user_booking, handlers>>
       ELSE /\ user_booking' = [user_booking EXCEPT ![u].booking_date = date]
            /\ handlers' = [handlers EXCEPT ![h] =
                               [pc |-> "date_hours", id |-> u,
                                program_id |-> user_booking[u].program_id,
                                booking_date |-> date, text |-> NULL]]
            /\ answer' = Say("")
    /\ UNCHANGED <<now, programs, admins, bookings, next_id, inflight, tasks>>
    /\ sent' = NoMessage

\* process_booking, step 2 from the result of get_available_hours on:
\* data.pop("booking_date") when no hour is free, the keyboard otherwise.  The
\* dict of a session that was popped meanwhile is no longer the session (a
\* session that /book replaced between the two steps is not told apart).
ProcessDateEnd(h) ==
    /\ handlers[h].pc = "date_hours"
    /\ LET u == handlers[h].id
           hours == get_available_hours(programs, bookings, now,
                                        handlers[h].program_id,
                                        handlers[h].booking_date)
       IN IF hours = <<>>
          THEN /\ answer' = Say("no free hours")
               /\ user_booking' = IF user_booking[u].active
                                  THEN [user_booking EXCEPT ![u].booking_date = NULL]
                                  ELSE user_booking
          ELSE /\ answer' = [text |-> "choose hour", keyboard |-> hours]
               /\ UNCHANGED user_booking
    /\ handlers' = [handlers EXCEPT ![h] = Idle]
    /\ UNCHANGED <<now, programs, admins, bookings, next_id, inflight, tasks>>
    /\ sent' = NoMessage

\* process_booking, step 3 up to the await of get_available_hours: the
\* arguments data["program_id"] and data["booking_date"] are evaluated
ProcessTimeBegin(h, u, text) ==
    /\ handlers[h].pc = "idle"
    /\ user_booking[u].active
    /\ user_booking[u].program_id # NULL
    /\ user_booking[u].booking_date # NULL
    /\ user_booking[u].booking_time = NULL
    /\ handlers' = [handlers EXCEPT ![h] =
                       [pc |-> "time_hours", id |-> u,
                        program_id |-> user_booking[u].program_id,
                        booking_date |-> user_booking[u].booking_date,
                        text |-> text]]
    /\ answer' = Say("")
    /\ UNCHANGED <<now, programs, admins, bookings, next_id, user_booking,
                   inflight, tasks>>
    /\ sent' = NoMessage

\* process_booking, step 3 from the result of get_available_hours on
ProcessTimeEnd(h) ==
    /\ handlers[h].pc = "time_hours"
    /\ LET u == handlers[h].id
           hours == get_available_hours(programs, bookings, now,
                                        handlers[h].program_id,
                                        handlers[h].booking_date)
       IN IF ~Contains(hours, handlers[h].text)
          THEN /\ answer' = Say("hour taken")
               /\ UNCHANGED user_booking
          ELSE /\ user_booking' = IF user_booking[u].active
                                  THEN [user_booking EXCEPT
                                           ![u].booking_time = handlers[h].text]
                                  ELSE user_booking
               /\ answer' = Say("enter car number")
    /\ handlers' = [handlers EXCEPT ![h] = Idle]
    /\ UNCHANGED <<now, programs, admins, bookings, next_id, inflight, tasks>>
    /\ sent' = NoMessage

\* message.text.upper() on the plates the model types in
Upper(text) == IF text = "aa1234bb" THEN "AA1234BB" ELSE text

\* re.match(r"^[A-Z..]{2}\d{4}[A-Z..]{2}$", ...) on the plates the model types in
PlateMatches(text) == text \in {"AA1234BB"}

\* process_booking, step 4
ProcessCar(u, text) ==
    /\ user_booking[u].active
    /\ user_booking[u].program_id # NULL
    /\ user_booking[u].booking_date # NULL
    /\ user_booking[u].booking_time # NULL
    /\ user_booking[u].car_number = ""
    /\ IF ~PlateMatches(Upper(text))
       THEN /\ answer' = Say("bad car number")
            /\ UNCHANGED user_booking
       ELSE /\ user_booking' = [user_booking EXCEPT ![u].car_number = Upper(text)]
            /\ answer' = Say("send phone")
    /\ UNCHANGED <<now, programs, admins, bookings, next_id, inflight,
                   handlers, tasks>>
    /\ sent' = NoMessage

\* the phone number of step 5: the number of a shared contact as it is, a
\* typed text with "+" put in front of its digits unless it starts with "+"
PhoneOf(msg) ==
    IF msg.contact THEN [plus |-> msg.plus, digits |-> msg.digits]
    ELSE [plus |-> TRUE, digits |-> msg.digits]

\* process_booking, step 5 up to the first await (save_user): the phone is
\* stored in the session and the coroutine goes on to the INSERT
ProcessPhone(u, text) ==
    /\ user_booking[u].active
    /\ user_booking[u].program_id # NULL
    /\ user_booking[u].booking_date # NULL
    /\ user_booking[u].booking_time # NULL
    /\ user_booking[u].car_number # ""
    /\ user_booking[u].phone_number = NoPhone
    /\ inflight[u].pc = "none"
    /\ next_id + Cardinality({v \in Customers : inflight[v].pc = "insert"}) <= MaxBookings
    /\ IF ~text.contact /\ text.digits < 9
       THEN /\ answer' = Say("bad phone")
            /\ UNCHANGED <<user_booking, inflight>>
       ELSE LET data == [user_booking[u] EXCEPT !.phone_number = PhoneOf(text)]
            IN /\ user_booking' = [user_booking EXCEPT ![u] = data]
               /\ inflight' = [inflight EXCEPT ![u] = [pc |-> "insert", data |-> data]]
               /\ answer' = Say("")
    /\ UNCHANGED <<now, programs, admins, bookings, next_id, handlers,
                   tasks>>
    /\ sent' = NoMessage

\* the row written by INSERT INTO bookings; status, actual_start and
\* actual_end take their column defaults
NewRow(u, data) ==
    [user_id |-> u,
     phone_number |-> data.phone_number,
     program_id |-> data.program_id,
     car_number |-> data.car_number,
     booking_datetime |-> Combine(data.booking_date, strptime(data.booking_time)),
     status |-> "scheduled",
     actual_start |-> NULL,
     actual_end |-> NULL]

\* process_booking, step 5 after save_user: the INSERT, the confirmation and
\* user_booking.pop(user_id, None)
InsertBooking(u) ==
    /\ inflight[u].pc = "insert"
    /\ bookings' = bookings @@ (next_id :> NewRow(u, inflight[u].data))
    /\ next_id' = next_id + 1
    /\ inflight' = [inflight EXCEPT ![u] = NoInsert]
    /\ user_booking' = [user_booking EXCEPT ![u] = NoSession]
    /\ answer' = Say("booking confirmed")
    /\ UNCHANGED <<now, programs, admins, handlers, tasks>>
    /\ sent' = NoMessage

\* ------------------------------------------------------------ notifications
\* send_notify: the message goes to bot.send_message; ok tells whether the
\* transport accepted it (an exception is printed and swallowed)
send_notify(user_id, about, id, car_number, ok) ==
    sent' = [to |-> user_id, about |-> about, id |-> id,
             car_number |-> car_number, ok |-> ok]

\* the rows of the second query of notify_next_after_buffer
LaterScheduled(bks, dt) ==
    {i \in DOMAIN bks : bks[i].status = "scheduled" /\ bks[i].booking_datetime > dt}

\* FirstOf that orders the rows by id alone
FirstOf_by_id(bks, ids) ==
    CHOOSE i \in ids : \A j \in ids : i <= j

\* ORDER BY b.booking_datetime ASC, b.id ASC LIMIT 1
FirstOf(bks, ids) ==
    CHOOSE i \in ids : \A j \in ids :
        \/ bks[i].booking_datetime < bks[j].booking_datetime
        \/ (bks[i].booking_datetime = bks[j].booking_datetime /\ i <= j)

\* Delay without the max(.., 0)
Delay_unclamped(finished_dt, t) == (finished_dt + BUFFER_MINUTES) - t

\* delay_seconds, in minutes
Delay(finished_dt, t) == Max((finished_dt + BUFFER_MINUTES) - t, 0)

\* NextTasks whose task does not sleep
NextTasks_no_delay(bks, t, finished_booking_id) ==
    IF finished_booking_id \notin DOMAIN bks THEN {}
    ELSE LET finished_dt == bks[finished_booking_id].booking_datetime
             later == LaterScheduled(bks, finished_dt)
         IN IF later = {} THEN {}
            ELSE LET n == FirstOf(bks, later)
                 IN IF DateOf(bks[n].booking_datetime) # DateOf(finished_dt) THEN {}
                    ELSE {[user_id |-> bks[n].user_id, id |-> n,
                           car_number |-> bks[n].car_number,
                           due |-> t]}

\* the deferred tasks notify_next_after_buffer creates for a finished booking
NextTasks(bks, t, finished_booking_id) ==
    IF finished_booking_id \notin DOMAIN bks THEN {}
    ELSE LET finished_dt == bks[finished_booking_id].booking_datetime
             later == LaterScheduled(bks, finished_dt)
         IN IF later = {} THEN {}
            ELSE LET n == FirstOf(bks, later)
                 IN IF DateOf(bks[n].booking_datetime) # DateOf(finished_dt) THEN {}
                    ELSE {[user_id |-> bks[n].user_id, id |-> n,
                           car_number |-> bks[n].car_number,
                           due |-> t + Delay(finished_dt, t)]}

\* delayed_notify that looks the booking up again and skips a missing one
delayed_notify_recheck(task, ok) ==
    /\ task \in tasks
    /\ now >= task.due
    /\ tasks' = tasks \ {task}
    /\ IF task.id \in DOMAIN bookings
       THEN send_notify(task.user_id, "early", task.id, task.car_number, ok)
       ELSE sent' = NoMessage
    /\ UNCHANGED <<now, programs, admins, bookings, next_id, user_booking,
                   inflight, handlers>>
    /\ answer' = Say("")

\* delayed_notify: runs once its sleep is over
delayed_notify(task, ok) ==
    /\ task \in tasks
    /\ now >= task.due
    /\ tasks' = tasks \ {task}
    /\ send_notify(task.user_id, "early", task.id, task.car_number, ok)
    /\ UNCHANGED <<now, programs, admins, bookings, next_id, user_booking,
                   inflight, handlers>>
    /\ answer' = Say("")

\* ----------------------------------------------------------- admin commands
\* StartWashBegin without the test for a wash that is already started
StartWashBegin_restart(h, caller, id) ==
    /\ handlers[h].pc = "idle"
    /\ IF ~is_admin(caller)
       THEN answer' = Say("no rights") /\ UNCHANGED handlers
       ELSE IF id = NULL
       THEN answer' = Say("usage") /\ UNCHANGED handlers
       ELSE IF id \notin DOMAIN bookings
       THEN answer' = Say("no such booking") /\ UNCHANGED handlers
       ELSE IF bookings[id].status = "finished"
       THEN answer' = Say("already finished") /\ UNCHANGED handlers
       ELSE /\ handlers' = [handlers EXCEPT ![h] = [pc |-> "start_update", id |-> id]]
            /\ answer' = Say("")
    /\ UNCHANGED <<now, programs, admins, bookings, next_id, user_booking,
                   inflight, tasks>>
    /\ sent' = NoMessage

\* /start_wash <ID> up to the UPDATE; id is NULL when the text is no number
StartWashBegin(h, caller, id) ==
    /\ handlers[h].pc = "idle"
    /\ IF ~is_admin(caller)
       THEN answer' = Say("no rights") /\ UNCHANGED handlers
       ELSE IF id = NULL
       THEN answer' = Say("usage") /\ UNCHANGED handlers
       ELSE IF id \notin DOMAIN bookings
       THEN answer' = Say("no such booking") /\ UNCHANGED handlers
       ELSE IF bookings[id].status = "in_progress"
       THEN answer' = Say("already started") /\ UNCHANGED handlers
       ELSE IF bookings[id].status = "finished"
       THEN answer' = Say("already finished") /\ UNCHANGED handlers
       ELSE /\ handlers' = [handlers EXCEPT ![h] = [pc |-> "start_update", id |-> id]]
            /\ answer' = Say("")
    /\ UNCHANGED <<now, programs, admins, bookings, next_id, user_booking,
                   inflight, tasks>>
    /\ sent' = NoMessage

\* StartUpdate that keeps an actual_start that is already set
StartUpdate_coalesce(bks, t, id) ==
    IF id \in DOMAIN bks
    THEN [bks EXCEPT ![id].status = "in_progress",
                     ![id].actual_start = IF @ # NULL THEN @ ELSE t]
    ELSE bks

\* UPDATE bookings SET status='in_progress', actual_start=NOW() WHERE id=$1
StartUpdate(bks, t, id) ==
    IF id \in DOMAIN bks
    THEN [bks EXCEPT ![id].status = "in_progress", ![id].actual_start = t]
    ELSE bks

\* StartWashUpdate that goes on to notify_next_after_buffer
StartWashUpdate_notifies(h) ==
    /\ handlers[h].pc = "start_update"
    /\ bookings' = StartUpdate(bookings, now, handlers[h].id)
    /\ answer' = Say("wash started")
    /\ handlers' = [handlers EXCEPT ![h].pc = "notify_next"]
    /\ UNCHANGED <<now, programs, admins, next_id, user_booking, inflight,
                   tasks>>
    /\ sent' = NoMessage

\* /start_wash: the UPDATE and the confirmation
StartWashUpdate(h) ==
    /\ handlers[h].pc = "start_update"
    /\ bookings' = StartUpdate(bookings, now, handlers[h].id)
    /\ answer' = Say("wash started")
    /\ handlers' = [handlers EXCEPT ![h] = Idle]
    /\ UNCHANGED <<now, programs, admins, next_id, user_booking, inflight,
                   tasks>>
    /\ sent' = NoMessage

\* FinishWashBegin without the test for a wash that is already finished
FinishWashBegin_again(h, caller, id) ==
    /\ handlers[h].pc = "idle"
    /\ IF ~is_admin(caller)
       THEN answer' = Say("no rights") /\ UNCHANGED handlers
       ELSE IF id = NULL
       THEN answer' = Say("usage") /\ UNCHANGED handlers
       ELSE IF id \notin DOMAIN bookings
       THEN answer' = Say("no such booking") /\ UNCHANGED handlers
       ELSE /\ handlers' = [handlers EXCEPT ![h] = [pc |-> "finish_update", id |-> id]]
            /\ answer' = Say("")
    /\ UNCHANGED <<now, programs, admins, bookings, next_id, user_booking,
                   inflight, tasks>>
    /\ sent' = NoMessage

\* /finish_wash <ID> up to the UPDATE
FinishWashBegin(h, caller, id) ==
    /\ handlers[h].pc = "idle"
    /\ IF ~is_admin(caller)
       THEN answer' = Say("no rights") /\ UNCHANGED handlers
       ELSE IF id = NULL
       THEN answer' = Say("usage") /\ UNCHANGED handlers
       ELSE IF id \notin DOMAIN bookings
       THEN answer' = Say("no such booking") /\ UNCHANGED handlers
       ELSE IF bookings[id].status = "finished"
       THEN answer' = Say("already finished") /\ UNCHANGED handlers
       ELSE /\ handlers' = [handlers EXCEPT ![h] = [pc |-> "finish_update", id |-> id]]
            /\ answer' = Say("")
    /\ UNCHANGED <<now, programs, admins, bookings, next_id, user_booking,
                   inflight, tasks>>
    /\ sent' = NoMessage

\* FinishUpdate that stamps actual_start without COALESCE
FinishUpdate_restamp(bks, t, id) ==
    IF id \in DOMAIN bks
    THEN [bks EXCEPT ![id].status = "finished",
                     ![id].actual_start = t,
                     ![id].actual_end = t]
    ELSE bks

\* UPDATE bookings SET status='finished',
\*     actual_start=COALESCE(actual_start, NOW()), actual_end=NOW() WHERE id=$1
FinishUpdate(bks, t, id) ==
    IF id \in DOMAIN bks
    THEN [bks EXCEPT ![id].status = "finished",
                     ![id].actual_start = IF @ # NULL THEN @ ELSE t,
                     ![id].actual_end = t]
    ELSE bks

\* /finish_wash: the UPDATE and the confirmation
FinishWashUpdate(h) ==
    /\ handlers[h].pc = "finish_update"
    /\ bookings' = FinishUpdate(bookings, now, handlers[h].id)
    /\ answer' = Say("wash finished")
    /\ handlers' = [handlers EXCEPT ![h].pc = "notify_next"]
    /\ UNCHANGED <<now, programs, admins, next_id, user_booking, inflight,
                   tasks>>
    /\ sent' = NoMessage

\* FinishWashNotify that sleeps and sends inside the handler instead of
\* creating a task
FinishWashNotify_inline(h) ==
    /\ handlers[h].pc = "notify_next"
    /\ \A task \in NextTasks(bookings, now, handlers[h].id) : now >= task.due
    /\ IF NextTasks(bookings, now, handlers[h].id) = {}
       THEN sent' = NoMessage
       ELSE \E task \in NextTasks(bookings, now, handlers[h].id) :
               send_notify(task.user_id, "early", task.id, task.car_number, TRUE)
    /\ handlers' = [handlers EXCEPT ![h] = Idle]
    /\ UNCHANGED <<now, programs, admins, bookings, next_id, user_booking,
                   inflight, tasks>>
    /\ answer' = Say("")

\* /finish_wash: await notify_next_after_buffer(booking_id)
FinishWashNotify(h) ==
    /\ handlers[h].pc = "notify_next"
    /\ tasks' = tasks \cup NextTasks(bookings, now, handlers[h].id)
    /\ handlers' = [handlers EXCEPT ![h] = Idle]
    /\ UNCHANGED <<now, programs, admins, bookings, next_id, user_booking,
                   inflight>>
    /\ sent' = NoMessage
    /\ answer' = Say("")

\* /finish_wash: a query of notify_next_after_buffer raises; the exception
\* leaves the handler, which already sent its confirmation, and no task is
\* created
NotifyNextFails(h) ==
    /\ handlers[h].pc = "notify_next"
    /\ handlers' = [handlers EXCEPT ![h] = Idle]
    /\ UNCHANGED <<now, programs, admins, bookings, next_id, user_booking,
                   inflight, tasks>>
    /\ sent' = NoMessage
    /\ answer' = Say("")

\* delete_booking without the test for a booking that does not exist
delete_booking_unchecked(caller, id, ok) ==
    /\ IF ~is_admin(caller)
       THEN answer' = Say("no rights") /\ UNCHANGED bookings /\ sent' = NoMessage
       ELSE IF id = NULL
       THEN answer' = Say("usage") /\ UNCHANGED bookings /\ sent' = NoMessage
       ELSE /\ bookings' = [i \in DOMAIN bookings \ {id} |-> bookings[i]]
            /\ answer' = Say("booking deleted")
            /\ IF id \in DOMAIN bookings
               THEN send_notify(bookings[id].user_id, "deleted", id,
                                bookings[id].car_number, ok)
               ELSE sent' = NoMessage
    /\ UNCHANGED <<now, programs, admins, next_id, user_booking, inflight,
                   handlers, tasks>>

\* /delete <ID>
delete_booking(caller, id, ok) ==
    /\ IF ~is_admin(caller)
       THEN answer' = Say("no rights") /\ UNCHANGED bookings /\ sent' = NoMessage
       ELSE IF id = NULL
       THEN answer' = Say("usage") /\ UNCHANGED bookings /\ sent' = NoMessage
       ELSE IF id \notin DOMAIN bookings
       THEN answer' = Say("no such booking") /\ UNCHANGED bookings /\ sent' = NoMessage
       ELSE /\ bookings' = [i \in DOMAIN bookings \ {id} |-> bookings[i]]
            /\ answer' = Say("booking deleted")
            /\ send_notify(bookings[id].user_id, "deleted", id,
                           bookings[id].car_number, ok)
    /\ UNCHANGED <<now, programs, admins, next_id, user_booking, inflight,
                   handlers, tasks>>

\* updated_dt of cmd_edit
UpdatedDt(current_dt, new_date, new_time) ==
    IF new_date # NULL /\ new_time # NULL THEN Combine(new_date, strptime(new_time))
    ELSE IF new_date # NULL THEN Combine(new_date, TimeOf(current_dt))
    ELSE IF new_time # NULL THEN Combine(DateOf(current_dt), strptime(new_time))
    ELSE current_dt

\* EditUpdate that clears the actual times of a booking it puts back to
\* scheduled
EditUpdate_reset(bks, id, new_date, new_time, new_status) ==
    LET dated == IF new_date # NULL \/ new_time # NULL
                 THEN [bks EXCEPT ![id].booking_datetime =
                           UpdatedDt(@, new_date, new_time)]
                 ELSE bks
    IN IF new_status = "scheduled"
       THEN [dated EXCEPT ![id].status = new_status,
                          ![id].actual_start = NULL,
                          ![id].actual_end = NULL]
       ELSE IF new_status # ""
       THEN [dated EXCEPT ![id].status = new_status]
       ELSE dated

\* UPDATE bookings SET booking_datetime=.., status=.. WHERE id=..
EditUpdate(bks, id, new_date, new_time, new_status) ==
    LET dated == IF new_date # NULL \/ new_time # NULL
                 THEN [bks EXCEPT ![id].booking_datetime =
                           UpdatedDt(@, new_date, new_time)]
                 ELSE bks
    IN IF new_status # ""
       THEN [dated EXCEPT ![id].status = new_status]
       ELSE dated

\* cmd_edit whose send_notify lets the exception of the transport through to
\* the except clause of the handler
cmd_edit_propagate(caller, id, new_date, new_time, new_status, ok) ==
    /\ IF id = NULL
       THEN answer' = Say("error") /\ UNCHANGED bookings /\ sent' = NoMessage
       ELSE IF id \notin DOMAIN bookings
       THEN answer' = Say("booking not found") /\ UNCHANGED bookings /\ sent' = NoMessage
       ELSE IF new_status # "" /\ new_status \notin Statuses
       THEN answer' = Say("bad status") /\ UNCHANGED bookings /\ sent' = NoMessage
       ELSE IF new_date = NULL /\ new_time = NULL /\ new_status = ""
       THEN answer' = Say("nothing changed") /\ UNCHANGED bookings /\ sent' = NoMessage
       ELSE /\ bookings' = EditUpdate(bookings, id, new_date, new_time, new_status)
            /\ send_notify(bookings[id].user_id, "edited", id, "", ok)
            /\ answer' = IF ok THEN Say("booking changed") ELSE Say("error")
    /\ UNCHANGED <<now, programs, admins, next_id, user_booking, inflight,
                   handlers, tasks>>

\* /edit <id> [<dd.mm.yyyy>] [<HH:MM>] [status <s>]; an argument that is not
\* given is NULL (the status: ""), id is NULL when the text is no number
cmd_edit(caller, id, new_date, new_time, new_status, ok) ==
    /\ IF id = NULL
       THEN answer' = Say("error") /\ UNCHANGED bookings /\ sent' = NoMessage
       ELSE IF id \notin DOMAIN bookings
       THEN answer' = Say("booking not found") /\ UNCHANGED bookings /\ sent' = NoMessage
       ELSE IF new_status # "" /\ new_status \notin Statuses
       THEN answer' = Say("bad status") /\ UNCHANGED bookings /\ sent' = NoMessage
       ELSE IF new_date = NULL /\ new_time = NULL /\ new_status = ""
       THEN answer' = Say("nothing changed") /\ UNCHANGED bookings /\ sent' = NoMessage
       ELSE /\ bookings' = EditUpdate(bookings, id, new_date, new_time, new_status)
            /\ send_notify(bookings[id].user_id, "edited", id, "", ok)
            /\ answer' = Say("booking changed")
    /\ UNCHANGED <<now, programs, admins, next_id, user_booking, inflight,
                   handlers, tasks>>

\* h * 60 + m + s // 60 of a "<h>:<m>:<s>" text
DurationOf(hms) == hms[1] * MinutesPerHour + hms[2] + (hms[3] \div 60)

\* /edit_program <id> duration <h:m:s>; program_id is NULL when the id is no
\* number, text is <<>> when it is not three numbers joined by ":"
edit_program(caller, program_id, text) ==
    /\ IF ~is_admin(caller)
       THEN answer' = Say("no rights") /\ UNCHANGED programs
       ELSE IF program_id = NULL
       THEN answer' = Say("bad format") /\ UNCHANGED programs
       ELSE IF text = <<>>
       THEN answer' = Say("error") /\ UNCHANGED programs
       ELSE /\ programs' = IF program_id \in DOMAIN programs
                           THEN [programs EXCEPT ![program_id] = DurationOf(text)]
                           ELSE programs
            /\ answer' = Say("program changed")
    /\ UNCHANGED <<now, admins, bookings, next_id, user_booking, inflight,
                   handlers, tasks>>
    /\ sent' = NoMessage

\* ---------------------------------------------------------------- specs
ProgramTexts == {1, 3, NULL}
DateTexts == (0..MaxDay) \cup {NULL}
BookingDates == {Today - 1, Today, NULL}
TimeTexts == {1000, 1100}
CarTexts == {"AA1234BB", "aa1234bb", "1234"}
PhoneTexts == {[contact |-> TRUE, plus |-> TRUE, digits |-> 12],
               [contact |-> FALSE, plus |-> TRUE, digits |-> 12],
               [contact |-> FALSE, plus |-> FALSE, digits |-> 12],
               [contact |-> FALSE, plus |-> FALSE, digits |-> 3]}

NextBooking ==
    \/ Tick
    \/ \E u \in Customers : book_program(u)
    \/ \E u \in Customers, text \in ProgramTexts : ProcessProgram(u, text)
    \/ \E u \in Customers, date \in BookingDates : ProcessDate(u, date)
    \/ \E u \in Customers, text \in TimeTexts : ProcessTime(u, text)
    \/ \E u \in Customers, text \in CarTexts : ProcessCar(u, text)
    \/ \E u \in Customers, text \in PhoneTexts : ProcessPhone(u, text)
    \/ \E u \in Customers : InsertBooking(u)

SpecBooking == Init /\ [][NextBooking]_vars

\* A table the wizard can have produced: customer 1 at 10:00 and customer 2
\* at 12:00 of the current day, both for the 60-minute program.
WizardRow(u, hhmm) ==
    NewRow(u, [EmptySession EXCEPT !.program_id = 1, !.booking_date = Today,
                                   !.booking_time = hhmm,
                                   !.car_number = "AA1234BB",
                                   !.phone_number = [plus |-> TRUE, digits |-> 12]])

InitLifecycle ==
    /\ now = T0
    /\ programs = (1 :> 60) @@ (2 :> 90)
    /\ admins = {1}
    /\ bookings = (1 :> WizardRow(1, 1000)) @@ (2 :> WizardRow(2, 1200))
    /\ next_id = 3
    /\ user_booking = [u \in Customers |-> NoSession]
    /\ inflight = [u \in Customers |-> NoInsert]
    /\ handlers = [h \in Handlers |-> Idle]
    /\ tasks = {}
    /\ sent = NoMessage
    /\ answer = Say("")

AdminCallers == {MAIN_ADMIN_ID, NumCustomers}
IdTexts == {1, MaxBookings + 1, NULL}
EditDates == {NULL}
EditTimes == {NULL}
EditStatuses == Statuses \cup {"", "cancelled"}

\* One administrator who sends the next command after the reply to the last:
\* one coroutine in flight, acting on booking 1 while booking 2 waits.
OneHandler == {1}

NextLifecycle ==
    \/ Tick
    \/ \E h \in OneHandler, c \in AdminCallers, id \in IdTexts : StartWashBegin(h, c, id)
    \/ \E h \in OneHandler : StartWashUpdate(h)
    \/ \E h \in OneHandler, c \in AdminCallers, id \in IdTexts : FinishWashBegin(h, c, id)
    \/ \E h \in OneHandler : FinishWashUpdate(h)
    \/ \E h \in OneHandler : FinishWashNotify(h)
    \/ \E task \in tasks : delayed_notify(task, TRUE)
    \/ \E id \in IdTexts, d \in EditDates, t \in EditTimes, st \in EditStatuses :
          cmd_edit(MAIN_ADMIN_ID, id, d, t, st, TRUE)
    \/ \E c \in AdminCallers, id \in IdTexts : delete_booking(c, id, TRUE)

SpecLifecycle == InitLifecycle /\ [][NextLifecycle]_vars

\* Two /finish_wash commands for booking 1 whose coroutines interleave.
RaceIds == {1}

NextFinishRace ==
    \/ Tick
    \/ \E h \in Handlers, id \in RaceIds : FinishWashBegin(h, MAIN_ADMIN_ID, id)
    \/ \E h \in Handlers : FinishWashUpdate(h)
    \/ \E h \in Handlers : FinishWashNotify(h)
    \/ \E task \in tasks : delayed_notify(task, TRUE)

SpecFinishRace == InitLifecycle /\ [][NextFinishRace]_vars

\* A /start_wash and a /finish_wash for booking 1 whose coroutines interleave.
NextWashRace ==
    \/ Tick
    \/ \E h \in Handlers, id \in RaceIds : StartWashBegin(h, MAIN_ADMIN_ID, id)
    \/ \E h \in Handlers : StartWashUpdate(h)
    \/ \E h \in Handlers, id \in RaceIds : FinishWashBegin(h, MAIN_ADMIN_ID, id)
    \/ \E h \in Handlers : FinishWashUpdate(h)
    \/ \E h \in Handlers : FinishWashNotify(h)
    \/ \E task \in tasks : delayed_notify(task, TRUE)

SpecWashRace == InitLifecycle /\ [][NextWashRace]_vars

\* ------------------------------------------------- availability on any table
\* Tables the commands can leave behind.  /edit puts any status on a row
\* whatever its actual times are, start_wash and finish_wash stamp them with
\* the clock, so a row combines a nominal time, a program, a status and
\* actual times that are not later than now (an actual_end comes with an
\* actual_start: finish_wash writes both).
Tomorrow == Today + 1

RowKinds(t) ==
    {<<1, "scheduled", NULL, NULL>>, <<2, "in_progress", t, NULL>>,
     <<2, "finished", T0, t>>, <<2, "scheduled", T0, t>>}

DrawnRows(t) ==
    {[WizardRow(1, 1000) EXCEPT !.program_id = k[1],
                                !.booking_datetime = Combine(d, strptime(1000)),
                                !.status = k[2],
                                !.actual_start = k[3],
                                !.actual_end = k[4]] :
        d \in {Today, Tomorrow}, k \in RowKinds(t)}

DrawnTables(t) ==
    UNION {[1..n -> DrawnRows(t)] : n \in 0..MaxRows}

InitAvail ==
    /\ now \in {T0, T0 + 2 * TickMinutes}
    /\ programs = (1 :> 60) @@ (2 :> 90)
    /\ admins = {1}
    /\ bookings \in DrawnTables(now)
    /\ next_id = Len(bookings) + 1
    /\ user_booking = [u \in Customers |-> NoSession]
    /\ inflight = [u \in Customers |-> NoInsert]
    /\ handlers = [h \in Handlers |-> Idle]
    /\ tasks = {}
    /\ sent = NoMessage
    /\ answer = Say("")

OneCustomer == {1}
AvailPrograms == {1, 2, 3}

NextAvail ==
    \/ \E u \in OneCustomer : book_program(u)
    \/ \E u \in OneCustomer, text \in AvailPrograms : ProcessProgram(u, text)
    \/ \E u \in OneCustomer, date \in DateTexts : ProcessDate(u, date)
    \/ \E u \in OneCustomer, text \in TimeTexts : ProcessTime(u, text)

SpecAvail == InitAvail /\ [][NextAvail]_vars

\* ------------------------------------------- the interval of a stored booking
\* Tables whose rows carry every status with and without actual times, and
\* rows whose program was deleted (program_id is NULL by ON DELETE SET NULL).
IntervalKinds(t) ==
    {<<1, "scheduled", NULL, NULL>>, <<2, "scheduled", T0, t>>,
     <<2, "in_progress", t, NULL>>, <<1, "finished", T0, t>>,
     <<NULL, "finished", NULL, NULL>>}

IntervalRows(t) ==
    {[WizardRow(1, 1000) EXCEPT !.program_id = k[1],
                                !.booking_datetime = Combine(d, strptime(1000)),
                                !.status = k[2],
                                !.actual_start = k[3],
                                !.actual_end = k[4]] :
        d \in {Today, Tomorrow}, k \in IntervalKinds(t)}

IntervalTables(t) ==
    UNION {[1..n -> IntervalRows(t)] : n \in 0..MaxRows}

InitInterval ==
    /\ now = T0 + 2 * TickMinutes
    /\ programs = (1 :> 60) @@ (2 :> 90)
    /\ admins = {1}
    /\ bookings \in IntervalTables(now)
    /\ next_id = Len(bookings) + 1
    /\ user_booking = [u \in Customers |-> NoSession]
    /\ inflight = [u \in Customers |-> NoInsert]
    /\ handlers = [h \in Handlers |-> Idle]
    /\ tasks = {}
    /\ sent = NoMessage
    /\ answer = Say("")

IntervalDates == {Today, Tomorrow}

NextInterval ==
    \/ \E u \in OneCustomer : book_program(u)
    \/ \E u \in OneCustomer, text \in AvailPrograms : ProcessProgram(u, text)
    \/ \E u \in OneCustomer, date \in IntervalDates : ProcessDate(u, date)

SpecInterval == InitInterval /\ [][NextInterval]_vars

\* ------------------------------------------------ availability after /delete
\* The administrator deletes rows of a drawn table while a customer asks for
\* the free hours.
DeleteIds == 1..MaxRows

NextDelete ==
    \/ \E u \in OneCustomer : book_program(u)
    \/ \E u \in OneCustomer, text \in AvailPrograms : ProcessProgram(u, text)
    \/ \E u \in OneCustomer, date \in DateTexts : ProcessDate(u, date)
    \/ \E c \in AdminCallers, id \in DeleteIds : delete_booking(c, id, TRUE)

SpecDelete == InitAvail /\ [][NextDelete]_vars

\* ------------------------------------------------ availability and the catalog
\* The administrator changes the duration of program 1 while a customer asks
\* for the free hours.
DurationTexts == {<<0, 30, 59>>, <<0, 0, 0>>, <<0, 0 - 30, 0>>, <<>>}
ProgramIds == {1, 3, NULL}

NextCatalog ==
    \/ Tick
    \/ \E c \in AdminCallers, p \in ProgramIds, text \in DurationTexts :
          edit_program(c, p, text)
    \/ \E u \in OneCustomer : book_program(u)
    \/ \E u \in OneCustomer, text \in AvailPrograms : ProcessProgram(u, text)
    \/ \E u \in OneCustomer, date \in DateTexts : ProcessDate(u, date)
    \/ \E u \in OneCustomer, text \in TimeTexts : ProcessTime(u, text)

SpecCatalog == InitLifecycle /\ [][NextCatalog]_vars

\* ------------------------------------------------------------------- /edit
\* Booking 1 is started, finished and edited: moved to the next day, to the
\* hour of booking 2, and put into any status.
RescheduleDates == {Tomorrow, NULL}
RescheduleTexts == {1200, NULL}

NextEdit ==
    \/ Tick
    \/ \E h \in OneHandler, id \in RaceIds : StartWashBegin(h, MAIN_ADMIN_ID, id)
    \/ \E h \in OneHandler : StartWashUpdate(h)
    \/ \E h \in OneHandler, id \in RaceIds : FinishWashBegin(h, MAIN_ADMIN_ID, id)
    \/ \E h \in OneHandler : FinishWashUpdate(h)
    \/ \E h \in OneHandler : FinishWashNotify(h)
    \/ \E task \in tasks : delayed_notify(task, TRUE)
    \/ \E id \in RaceIds, d \in RescheduleDates, t \in RescheduleTexts,
          st \in Statuses \cup {""} :
          cmd_edit(MAIN_ADMIN_ID, id, d, t, st, TRUE)

SpecEdit == InitLifecycle /\ [][NextEdit]_vars

\* ------------------------------------------------- the working window
\* A customer books through the wizard; the administrator moves the booking
\* to another time of day and makes program 1 longer.
WindowTimes == {2030}
WindowDurations == {<<12, 0, 0>>}

NextWindow ==
    \/ Tick
    \/ \E u \in OneCustomer : book_program(u)
    \/ \E u \in OneCustomer, text \in ProgramTexts : ProcessProgram(u, text)
    \/ \E u \in OneCustomer, date \in BookingDates : ProcessDate(u, date)
    \/ \E u \in OneCustomer, text \in TimeTexts : ProcessTime(u, text)
    \/ \E u \in OneCustomer, text \in CarTexts : ProcessCar(u, text)
    \/ \E u \in OneCustomer, text \in PhoneTexts : ProcessPhone(u, text)
    \/ \E u \in OneCustomer : InsertBooking(u)
    \/ \E id \in RaceIds, t \in WindowTimes :
          cmd_edit(MAIN_ADMIN_ID, id, NULL, t, "", TRUE)
    \/ \E text \in WindowDurations : edit_program(MAIN_ADMIN_ID, 1, text)

SpecWindow == Init /\ [][NextWindow]_vars

\* ------------------------------------------------ delivery of notifications
\* Booking 1 is finished, edited and deleted while the transport accepts or
\* refuses each message.
DeliveryIds == {1, 2}
DeliveryStatuses == {"scheduled", ""}

NextDelivery ==
    \/ Tick
    \/ \E h \in OneHandler, id \in RaceIds : FinishWashBegin(h, MAIN_ADMIN_ID, id)
    \/ \E h \in OneHandler : FinishWashUpdate(h)
    \/ \E h \in OneHandler : FinishWashNotify(h)
    \/ \E h \in OneHandler : NotifyNextFails(h)
    \/ \E task \in tasks, ok \in BOOLEAN : delayed_notify(task, ok)
    \/ \E id \in DeliveryIds, ok \in BOOLEAN : delete_booking(MAIN_ADMIN_ID, id, ok)
    \/ \E id \in RaceIds, st \in DeliveryStatuses, ok \in BOOLEAN :
          cmd_edit(MAIN_ADMIN_ID, id, NULL, NULL, st, ok)

SpecDelivery == InitLifecycle /\ [][NextDelivery]_vars

\* ------------------------------------------- finish_wash and its follow-up
\* Booking 1 is finished while another command deletes booking 2, the next
\* one.  The event loop runs every coroutine that is ready and the clock
\* goes on: the steps of finish_wash, the deferred task and the clock are
\* fair.
NextIds == {2}

NextFollowUp ==
    \/ Tick
    \/ \E h \in OneHandler, id \in RaceIds : FinishWashBegin(h, MAIN_ADMIN_ID, id)
    \/ \E h \in OneHandler : FinishWashUpdate(h)
    \/ \E h \in OneHandler : FinishWashNotify(h)
    \/ \E task \in tasks, ok \in BOOLEAN : delayed_notify(task, ok)
    \/ \E id \in NextIds : delete_booking(MAIN_ADMIN_ID, id, TRUE)

SpecFollowUp ==
    /\ InitLifecycle
    /\ [][NextFollowUp]_vars
    /\ WF_vars(Tick)
    /\ WF_vars(\E h \in OneHandler : FinishWashUpdate(h))
    /\ WF_vars(\E h \in OneHandler : FinishWashNotify(h))
    /\ WF_vars(\E task \in tasks, ok \in BOOLEAN : delayed_notify(task, ok))

\* ------------------------------------------- who calls the early notifier
\* Booking 1 is started, finished, set to finished or scheduled by /edit and
\* finished again; commands also name booking MaxBookings + 1, which is not
\* stored.
InvokeIds == {1, MaxBookings + 1}
InvokeStatuses == {"finished", "scheduled"}

NextInvoke ==
    \/ Tick
    \/ \E h \in OneHandler, id \in InvokeIds : StartWashBegin(h, MAIN_ADMIN_ID, id)
    \/ \E h \in OneHandler : StartWashUpdate(h)
    \/ \E h \in OneHandler, id \in InvokeIds : FinishWashBegin(h, MAIN_ADMIN_ID, id)
    \/ \E h \in OneHandler : FinishWashUpdate(h)
    \/ \E h \in OneHandler : FinishWashNotify(h)
    \/ \E task \in tasks : delayed_notify(task, TRUE)
    \/ \E id \in InvokeIds, st \in InvokeStatuses :
          cmd_edit(MAIN_ADMIN_ID, id, NULL, NULL, st, TRUE)

SpecInvoke == InitLifecycle /\ [][NextInvoke]_vars

\* ----------------------------------------------- commands of a non-admin
\* The main admin and customer NumCustomers, who is not in the admins table,
\* send /start_wash, /finish_wash, /delete and /edit for booking 1.
RightsCallers == {MAIN_ADMIN_ID, NumCustomers}

NextRights ==
    \/ Tick
    \/ \E h \in OneHandler, c \in RightsCallers, id \in RaceIds : StartWashBegin(h, c, id)
    \/ \E h \in OneHandler : StartWashUpdate(h)
    \/ \E h \in OneHandler, c \in RightsCallers, id \in RaceIds : FinishWashBegin(h, c, id)
    \/ \E h \in OneHandler : FinishWashUpdate(h)
    \/ \E h \in OneHandler : FinishWashNotify(h)
    \/ \E task \in tasks : delayed_notify(task, TRUE)
    \/ \E c \in RightsCallers, id \in RaceIds : delete_booking(c, id, TRUE)
    \/ \E c \in RightsCallers, id \in RaceIds, st \in InvokeStatuses :
          cmd_edit(c, id, NULL, NULL, st, TRUE)

SpecRights == InitLifecycle /\ [][NextRights]_vars

\* ------------------------------------------ wizard messages in flight
\* Evening of the current day: 20:00 is the one hour left for the 60-minute
\* program and booking 1 holds it.  Customer 1 runs the wizard, the date and
\* the time message may be handled concurrently, and the main admin moves
\* booking 1 between the current and the next day with /edit.  A /book is
\* sent when no earlier message of the customer is still being handled.
Evening == Combine(Today, 19 * MinutesPerHour + 15)
WizardDates == {Today, Tomorrow}
WizardTimes == {1900, 2000}
WizardPhones == {[contact |-> FALSE, plus |-> FALSE, digits |-> 12]}

InitWizard ==
    /\ now = Evening
    /\ programs = (1 :> 60) @@ (2 :> 90)
    /\ admins = {1}
    /\ bookings = (1 :> WizardRow(1, 2000))
    /\ next_id = 2
    /\ user_booking = [u \in Customers |-> NoSession]
    /\ inflight = [u \in Customers |-> NoInsert]
    /\ handlers = [h \in Handlers |-> Idle]
    /\ tasks = {}
    /\ sent = NoMessage
    /\ answer = Say("")

NextWizard ==
    \/ \E u \in OneCustomer :
          /\ \A h \in Handlers : handlers[h].pc = "idle"
          /\ inflight[u].pc = "none"
          /\ book_program(u)
    \/ \E u \in OneCustomer, text \in ProgramTexts : ProcessProgram(u, text)
    \/ \E h \in Handlers, u \in OneCustomer, date \in WizardDates :
          ProcessDateBegin(h, u, date)
    \/ \E h \in Handlers : ProcessDateEnd(h)
    \/ \E h \in Handlers, u \in OneCustomer, text \in WizardTimes :
          ProcessTimeBegin(h, u, text)
    \/ \E h \in Handlers : ProcessTimeEnd(h)
    \/ \E u \in OneCustomer, text \in CarTexts : ProcessCar(u, text)
    \/ \E u \in OneCustomer, text \in WizardPhones : ProcessPhone(u, text)
    \/ \E u \in OneCustomer : InsertBooking(u)
    \/ \E d \in WizardDates : cmd_edit(MAIN_ADMIN_ID, 1, d, NULL, "", TRUE)

SpecWizard == InitWizard /\ [][NextWizard]_vars

\* ------------------------------------------------ the early-arrival notifier
\* Booking 1 is washed and finished while other bookings wait: booking 1 is
\* at 11:00 of the current day, not started or started at T0; the other rows
\* lie before, at and after it on the same day or on the next one, and are
\* scheduled, in progress or finished.
NotifySlots ==
    {<<Today, 1000>>, <<Today, 1100>>, <<Today, 1200>>, <<Today, 1300>>,
     <<Tomorrow, 1000>>}

NotifyKinds ==
    {<<"scheduled", NULL, NULL>>, <<"in_progress", T0, NULL>>, <<"finished", T0, T0>>}

WashedKinds == {<<"scheduled", NULL, NULL>>, <<"in_progress", T0, NULL>>}

CustomerOf(i) == ((i - 1) % NumCustomers) + 1

NotifyRow(i, slot, kind) ==
    [WizardRow(CustomerOf(i), slot[2]) EXCEPT
        !.booking_datetime = Combine(slot[1], strptime(slot[2])),
        !.car_number = IF i = 1 THEN "AA1234BB" ELSE "BB5678CC",
        !.status = kind[1],
        !.actual_start = kind[2],
        !.actual_end = kind[3]]

NotifyTables ==
    UNION {{(1 :> NotifyRow(1, <<Today, 1100>>, w)) @@
            [i \in 2..(n + 1) |-> NotifyRow(i, f[i][1], f[i][2])] :
               w \in WashedKinds,
               f \in [2..(n + 1) -> NotifySlots \X NotifyKinds]} :
           n \in 0..MaxRows}

InitNotify ==
    /\ now = T0
    /\ programs = (1 :> 60) @@ (2 :> 90)
    /\ admins = {1}
    /\ bookings \in NotifyTables
    /\ next_id = LastId(bookings) + 1
    /\ user_booking = [u \in Customers |-> NoSession]
    /\ inflight = [u \in Customers |-> NoInsert]
    /\ handlers = [h \in Handlers |-> Idle]
    /\ tasks = {}
    /\ sent = NoMessage
    /\ answer = Say("")

\* the bookings whose customers wait for a deferred notification
NotifiedIds == {task.id : task \in tasks}

RescheduleTimes == {1300}

NextNotify ==
    \/ Tick
    \/ \E h \in OneHandler, id \in RaceIds : FinishWashBegin(h, MAIN_ADMIN_ID, id)
    \/ \E h \in OneHandler : FinishWashUpdate(h)
    \/ \E h \in OneHandler : FinishWashNotify(h)
    \/ \E task \in tasks, ok \in BOOLEAN : delayed_notify(task, ok)
    \/ \E id \in NotifiedIds : delete_booking(MAIN_ADMIN_ID, id, TRUE)
    \/ \E id \in NotifiedIds, t \in RescheduleTimes :
          cmd_edit(MAIN_ADMIN_ID, id, NULL, t, "", TRUE)

SpecNotify == InitNotify /\ [][NextNotify]_vars

\* ------------------------------------------------------- the whole program
Next ==
    \/ Tick
    \/ \E u \in Customers : book_program(u)
    \/ \E u \in Customers, text \in ProgramTexts \cup AvailPrograms : ProcessProgram(u, text)
    \/ \E u \in Customers, date \in DateTexts : ProcessDate(u, date)
    \/ \E u \in Customers, text \in TimeTexts : ProcessTime(u, text)
    \/ \E h \in Handlers, u \in Customers, date \in DateTexts :
          ProcessDateBegin(h, u, date)
    \/ \E h \in Handlers : ProcessDateEnd(h)
    \/ \E h \in Handlers, u \in Customers, text \in TimeTexts :
          ProcessTimeBegin(h, u, text)
    \/ \E h \in Handlers : ProcessTimeEnd(h)
    \/ \E u \in Customers, text \in CarTexts : ProcessCar(u, text)
    \/ \E u \in Customers, text \in PhoneTexts : ProcessPhone(u, text)
    \/ \E u \in Customers : InsertBooking(u)
    \/ \E h \in Handlers, c \in Callers, id \in IdTexts \cup (1..MaxBookings) :
          StartWashBegin(h, c, id)
    \/ \E h \in Handlers : StartWashUpdate(h)
    \/ \E h \in Handlers, c \in Callers, id \in IdTexts \cup (1..MaxBookings) :
          FinishWashBegin(h, c, id)
    \/ \E h \in Handlers : FinishWashUpdate(h)
    \/ \E h \in Handlers : FinishWashNotify(h)
    \/ \E h \in Handlers : NotifyNextFails(h)
    \/ \E task \in tasks, ok \in BOOLEAN : delayed_notify(task, ok)
    \/ \E c \in Callers, id \in IdTexts \cup (1..MaxBookings), d \in DateTexts,
          t \in TimeTexts \cup {NULL}, st \in EditStatuses, ok \in BOOLEAN :
          cmd_edit(c, id, d, t, st, ok)
    \/ \E c \in Callers, id \in IdTexts \cup (1..MaxBookings), ok \in BOOLEAN :
          delete_booking(c, id, ok)
    \/ \E c \in Callers, p \in ProgramIds, text \in DurationTexts :
          edit_program(c, p, text)

Spec == Init /\ [][Next]_vars

\* ------------------------------------------------------------------- claims
\* the stored rows a and b have the same nominal date and the effective
\* interval of a meets the effective interval of b widened by the buffer
BufferedOverlap(a, b) ==
    /\ DateOf(bookings[a].booking_datetime) = DateOf(bookings[b].booking_datetime)
    /\ ~(\/ BEnd(programs, bookings[a]) <= BStart(bookings[b]) - BUFFER_MINUTES
         \/ BStart(bookings[a]) >= BEnd(programs, bookings[b]) + BUFFER_MINUTES)

\* C1: no two distinct stored bookings of the same nominal date overlap once
\* the buffer is applied.
C1_NoBufferedOverlap ==
    \A a \in DOMAIN bookings, b \in DOMAIN bookings :
        a # b => ~BufferedOverlap(a, b)

\* the slot of the row the wizard of customer u is about to insert is free of
\* every stored booking of its date, read at the moment of the INSERT
SlotFreeAtWrite(u) ==
    LET row == NewRow(u, inflight[u].data)
        end == row.booking_datetime + Pdur(programs, row)
    IN \A i \in DOMAIN bookings :
           DateOf(bookings[i].booking_datetime) = DateOf(row.booking_datetime)
           => \/ end <= BStart(bookings[i]) - BUFFER_MINUTES
              \/ row.booking_datetime >= BEnd(programs, bookings[i]) + BUFFER_MINUTES

\* C2: creation re-validates at write time: a booking is inserted only if
\* its slot conflicts with no booking stored at that moment, so of two
\* concurrent wizards on conflicting slots only one inserts.
C2_InsertRevalidates ==
    [][\A u \in Customers : InsertBooking(u) => SlotFreeAtWrite(u)]_vars

\* C3: Finish is atomic per booking: an UPDATE of finish_wash only ever hits
\* a booking that is not finished yet, so of two concurrent calls one
\* succeeds and actual_end is written once.
C3_FinishAtomic ==
    [][\A h \in Handlers :
          (FinishWashUpdate(h) /\ handlers[h].id \in DOMAIN bookings)
          => bookings[handlers[h].id].status # "finished"]_vars

\* the hours offered by the date step, as datetimes of that date
Offered(date, keyboard) ==
    {Combine(date, strptime(keyboard[i])) : i \in 1..Len(keyboard)}

WithinWindow(S, D, date, t) ==
    /\ S >= Combine(date, WORK_START_HOUR * MinutesPerHour)
    /\ S + D <= Combine(date, WORK_END_HOUR * MinutesPerHour)
    /\ (date = DateOf(t) => S >= t + BUFFER_MINUTES)

\* C4: every start S offered for a program of duration D satisfies
\* S >= 09:00, S + D <= 21:00 and, on the current day, S >= now + BUFFER.
C4_StartsWithinWindow ==
    [][\A u \in Customers :
          /\ \A date \in DateTexts :
                (ProcessDate(u, date) /\ user_booking[u].program_id \in DOMAIN programs)
                => \A S \in Offered(date, answer'.keyboard) :
                       WithinWindow(S, programs[user_booking[u].program_id], date, now)
          /\ \A text \in TimeTexts :
                (ProcessTime(u, text) /\ user_booking'[u].booking_time = text)
                => WithinWindow(Combine(user_booking[u].booking_date, strptime(text)),
                                programs[user_booking[u].program_id],
                                user_booking[u].booking_date, now)]_vars

C4_Witness ==
    \E u \in Customers :
        /\ answer.text = "choose hour"
        /\ user_booking[u].booking_date = DateOf(now)
        /\ user_booking[u].program_id = 2
        /\ answer.keyboard[1] > 1000
        /\ answer.keyboard[Len(answer.keyboard)] = 1900

\* the hours h of 9..20 that pass the two filters and are free of every
\* stored booking of the date
FreeHours(p, date) ==
    {h \in WORK_START_HOUR..(WORK_END_HOUR - 1) :
        LET start == Combine(date, h * MinutesPerHour)
            end == start + programs[p]
        IN /\ start >= Combine(date, WORK_START_HOUR * MinutesPerHour)
           /\ (date = DateOf(now) => start >= now + BUFFER_MINUTES)
           /\ end <= Combine(date, WORK_END_HOUR * MinutesPerHour)
           /\ \A i \in DOMAIN bookings :
                  DateOf(bookings[i].booking_datetime) = date
                  => \/ end <= BStart(bookings[i]) - BUFFER_MINUTES
                     \/ start >= BEnd(programs, bookings[i]) + BUFFER_MINUTES}

RECURSIVE Ascending(_)
Ascending(hs) ==
    IF hs = {} THEN <<>>
    ELSE LET m == CHOOSE x \in hs : \A y \in hs : x <= y
         IN <<m * 100>> \o Ascending(hs \ {m})

OneBookingAtTen ==
    /\ DOMAIN bookings = {1}
    /\ bookings[1].status = "scheduled"
    /\ bookings[1].booking_datetime = Combine(Tomorrow, 10 * MinutesPerHour)
    /\ Pdur(programs, bookings[1]) = 60
    /\ Tomorrow > DateOf(now)

C7_FinishTwice ==
    [][\A h \in Handlers, id \in DOMAIN bookings :
          /\ (FinishWashUpdate(h) /\ handlers[h].id = id
                                  /\ bookings[id].status # "finished")
             => /\ answer'.text = "wash finished"
                /\ bookings'[id].status = "finished"
                /\ bookings'[id].actual_end = now
          /\ \A c \in Callers :
                (FinishWashBegin(h, c, id) /\ is_admin(c)
                                           /\ bookings[id].status = "finished")
                => /\ answer'.text = "already finished"
                   /\ bookings' = bookings
                   /\ handlers' = handlers
                   /\ tasks' = tasks]_vars

C7_Witness ==
    \E id \in DOMAIN bookings :
        /\ answer.text = "already finished"
        /\ bookings[id].status = "finished"
        /\ bookings[id].actual_end # NULL
        /\ bookings[id].actual_end < now
        /\ \A h \in Handlers : handlers[h].pc = "idle"

\* C8: Start on a booking in progress is answered "already started", on a
\* finished booking "already finished"; no field of the booking changes and
\* no update is left pending.
C8_StartRejected ==
    [][\A h \in Handlers, c \in Callers, id \in DOMAIN bookings :
          (StartWashBegin(h, c, id) /\ is_admin(c)
                                    /\ bookings[id].status # "scheduled")
          => /\ answer'.text = (IF bookings[id].status = "in_progress"
                                THEN "already started" ELSE "already finished")
             /\ bookings' = bookings
             /\ handlers' = handlers]_vars

C8_Witness ==
    \E id \in DOMAIN bookings :
        /\ answer.text = "already started"
        /\ bookings[id].status = "in_progress"
        /\ bookings[id].actual_start # NULL
        /\ \A h \in Handlers : handlers[h].pc = "idle"

C10_FinishEffect ==
    [][\A h \in Handlers, id \in DOMAIN bookings :
          (FinishWashUpdate(h) /\ handlers[h].id = id
                               /\ bookings[id].status \in {"scheduled", "in_progress"})
          => /\ bookings'[id].status = "finished"
             /\ bookings'[id].actual_end = now
             /\ bookings'[id].actual_start =
                    (IF bookings[id].actual_start # NULL
                     THEN bookings[id].actual_start ELSE now)
             /\ bookings'[id].booking_datetime = bookings[id].booking_datetime
             /\ \A j \in DOMAIN bookings \ {id} : bookings'[j] = bookings[j]]_vars

\* a wash started at one time and finished at a later one
C10_Witness ==
    \E id \in DOMAIN bookings :
        /\ answer.text = "wash finished"
        /\ bookings[id].status = "finished"
        /\ bookings[id].actual_end = now
        /\ bookings[id].actual_start # NULL
        /\ bookings[id].actual_start < now

\* C11: once the stored status of a booking is finished, no step of a
\* start_wash or finish_wash, in any interleaving of such calls on the same
\* booking, changes it to another status.
C11_FinishedIsTerminal ==
    [][\A id \in DOMAIN bookings :
          bookings[id].status = "finished"
          => (id \in DOMAIN bookings' /\ bookings'[id].status = "finished")]_vars

\* C12: for every stored booking, actual_end set implies status finished and
\* actual_start set implies status in_progress or finished.
C12_ActualTimesMatchStatus ==
    \A id \in DOMAIN bookings :
        /\ (bookings[id].actual_end # NULL => bookings[id].status = "finished")
        /\ (bookings[id].actual_start # NULL
            => bookings[id].status \in {"in_progress", "finished"})

\* C13: start_wash, finish_wash, /delete and /edit called with the id of no
\* stored booking answer the caller that there is no such booking and leave
\* the booking table as it is; finish_wash then does not go on to
\* notify_next_after_buffer and nothing is sent.
C13_NotFoundReported ==
    [][\A id \in IdTexts \ {NULL} :
          id \notin DOMAIN bookings =>
          /\ \A h \in OneHandler, c \in AdminCallers :
                ((StartWashBegin(h, c, id) \/ FinishWashBegin(h, c, id)) /\ is_admin(c))
                => /\ answer'.text = "no such booking"
                   /\ bookings' = bookings
                   /\ handlers' = handlers
                   /\ tasks' = tasks
          /\ \A c \in AdminCallers :
                (delete_booking(c, id, TRUE) /\ is_admin(c))
                => /\ answer'.text = "no such booking"
                   /\ bookings' = bookings
                   /\ sent' = NoMessage
          /\ \A d \in EditDates, t \in EditTimes, st \in EditStatuses :
                cmd_edit(MAIN_ADMIN_ID, id, d, t, st, TRUE)
                => /\ answer'.text = "booking not found"
                   /\ bookings' = bookings
                   /\ sent' = NoMessage]_vars

\* a command for the id of a booking that was stored and deleted
C13_Witness ==
    /\ answer.text \in {"no such booking", "booking not found"}
    /\ 1 \notin DOMAIN bookings
    /\ 2 \in DOMAIN bookings
    /\ sent = NoMessage
    /\ \A h \in Handlers : handlers[h].pc = "idle"

\* the bookings that may be told to come early once booking F is finished:
\* scheduled, nominally later than F and on the calendar date of F
NextCandidates(F) ==
    {i \in DOMAIN bookings :
        /\ bookings[i].status = "scheduled"
        /\ bookings[i].booking_datetime > bookings[F].booking_datetime
        /\ DateOf(bookings[i].booking_datetime) = DateOf(bookings[F].booking_datetime)}

\* C14: notify_next_after_buffer for the finished booking F schedules one
\* notification, for a booking of earliest nominal start among the scheduled
\* bookings that are later than F on F's date, addressed to its customer;
\* without such a booking it schedules nothing.  The target is not F and is
\* not in progress or finished.
C14_NotifyTarget ==
    [][\A h \in Handlers :
          (FinishWashNotify(h) /\ handlers[h].id \in DOMAIN bookings)
          => LET F == handlers[h].id
                 cands == NextCandidates(F)
             IN IF cands = {} THEN tasks' = tasks
                ELSE \E n \in cands :
                        /\ \A j \in cands :
                               bookings[n].booking_datetime <= bookings[j].booking_datetime
                        /\ n # F
                        /\ bookings[n].status \notin {"in_progress", "finished"}
                        /\ \E task \in tasks' :
                               /\ tasks' = tasks \cup {task}
                               /\ task.id = n
                               /\ task.user_id = bookings[n].user_id]_vars

\* booking 3 is chosen: it is earlier than the scheduled booking 2, which has
\* the lower id
C14_Witness ==
    /\ DOMAIN bookings = {1, 2, 3}
    /\ bookings[1].status = "finished"
    /\ bookings[2].status = "scheduled"
    /\ bookings[3].status = "scheduled"
    /\ bookings[2].booking_datetime > bookings[3].booking_datetime
    /\ DateOf(bookings[2].booking_datetime) = DateOf(bookings[1].booking_datetime)
    /\ \E task \in tasks : task.id = 3 /\ task.user_id = bookings[3].user_id
    /\ \A h \in Handlers : handlers[h].pc = "idle"

\* C15: the deferred notification is due max(nominal booking_datetime of the
\* finished booking + BUFFER_MINUTES - now, 0) after notify_next_after_buffer
\* runs: the delay is taken from the nominal start, whatever actual_start and
\* actual_end are, and is never negative.
C15_DelayFromNominalStart ==
    [][\A h \in Handlers :
          (FinishWashNotify(h) /\ handlers[h].id \in DOMAIN bookings)
          => \A task \in tasks' \ tasks :
                 /\ task.due - now =
                       Max(bookings[handlers[h].id].booking_datetime
                           + BUFFER_MINUTES - now, 0)
                 /\ task.due - now >= 0]_vars

\* a wash finished after its nominal start plus the buffer: the notification
\* is due at once, at the time of the finish
C15_Witness ==
    \E task \in tasks :
        /\ bookings[1].status = "finished"
        /\ bookings[1].actual_start < bookings[1].actual_end
        /\ bookings[1].actual_end > bookings[1].booking_datetime + BUFFER_MINUTES
        /\ task.due = bookings[1].actual_end
        /\ task.due = now

\* C16: a deferred notification keeps the customer, the booking id and the
\* car number read when it was scheduled; /delete and /edit of that booking
\* leave it pending, and once its delay is over it runs and hands the message
\* with those values to the transport, whether the booking is still stored
\* or not.
C16_StaleNotificationFires ==
    /\ [](\A task \in tasks : now >= task.due => ENABLED delayed_notify(task, TRUE))
    /\ [][/\ \A h \in Handlers :
               FinishWashNotify(h)
               => \A task \in tasks' \ tasks :
                      /\ task.user_id = bookings[task.id].user_id
                      /\ task.car_number = bookings[task.id].car_number
          /\ \A id \in NotifiedIds, t \in RescheduleTimes :
               (delete_booking(MAIN_ADMIN_ID, id, TRUE)
                \/ cmd_edit(MAIN_ADMIN_ID, id, NULL, t, "", TRUE))
               => tasks' = tasks
          /\ \A task \in tasks, ok \in BOOLEAN :
               delayed_notify(task, ok)
               => sent' = [to |-> task.user_id, about |-> "early",
                           id |-> task.id, car_number |-> task.car_number,
                           ok |-> ok]]_vars

\* the early-arrival message for a booking that is no longer stored
C16_Witness ==
    /\ sent.about = "early"
    /\ sent.to \in Customers
    /\ sent.car_number = "BB5678CC"
    /\ sent.id \notin DOMAIN bookings
    /\ bookings[1].status = "finished"

\* the hours h of 9..20 that pass the two filters and are free of every
\* stored booking of the date other than booking b
FreeHoursWithout(b, p, date) ==
    {h \in WORK_START_HOUR..(WORK_END_HOUR - 1) :
        LET start == Combine(date, h * MinutesPerHour)
            end == start + programs[p]
        IN /\ start >= Combine(date, WORK_START_HOUR * MinutesPerHour)
           /\ (date = DateOf(now) => start >= now + BUFFER_MINUTES)
           /\ end <= Combine(date, WORK_END_HOUR * MinutesPerHour)
           /\ \A i \in DOMAIN bookings \ {b} :
                  DateOf(bookings[i].booking_datetime) = date
                  => \/ end <= BStart(bookings[i]) - BUFFER_MINUTES
                     \/ start >= BEnd(programs, bookings[i]) + BUFFER_MINUTES}

\* C17: after /delete of booking b the row is gone and, for every program
\* and date, get_available_hours returns what the other bookings alone
\* allow, as if b had never been stored.
C17_DeletedIsNoConflict ==
    [][\A c \in AdminCallers, b \in DeleteIds :
          (delete_booking(c, b, TRUE) /\ is_admin(c) /\ b \in DOMAIN bookings)
          => /\ b \notin DOMAIN bookings'
             /\ \A p \in AvailPrograms, date \in {Today, Tomorrow} :
                    get_available_hours(programs, bookings', now, p, date) =
                        (IF p \in DOMAIN programs
                         THEN Ascending(FreeHoursWithout(b, p, date))
                         ELSE <<>>)]_vars

\* booking 1 is deleted, booking 2 stays and still blocks its hour, and the
\* hour of the next day is offered
C17_Witness ==
    /\ answer.text = "booking deleted"
    /\ sent.about = "deleted"
    /\ sent.id = 1
    /\ DOMAIN bookings = {2}
    /\ bookings[2].booking_datetime = Combine(Today, strptime(1000))
    /\ ~Contains(get_available_hours(programs, bookings, now, 1, Today), 1000)
    /\ Contains(get_available_hours(programs, bookings, now, 1, Tomorrow), 1000)

\* C18: for a program whose stored duration is zero or negative the date
\* step gets the empty list from get_available_hours and offers no hour,
\* whatever the date and the stored bookings.
C18_NoHoursWithoutDuration ==
    [][\A u \in Customers, date \in DateTexts :
          (/\ ProcessDate(u, date)
           /\ user_booking[u].program_id \in DOMAIN programs
           /\ programs[user_booking[u].program_id] <= 0)
          => /\ answer'.keyboard = <<>>
             /\ user_booking'[u].booking_date = NULL]_vars

\* C19: the step of start_wash and of finish_wash that writes the new status
\* and confirms it, and every /edit that changes a field, hands a message for
\* the customer of the booking to the transport.
C19_ChangesNotifyCustomer ==
    [][/\ \A h \in Handlers :
             ((StartWashUpdate(h) \/ FinishWashUpdate(h))
              /\ handlers[h].id \in DOMAIN bookings)
             => /\ sent'.to = bookings[handlers[h].id].user_id
                /\ sent'.id = handlers[h].id
       /\ \A id \in DOMAIN bookings, d \in EditDates, t \in EditTimes,
             st \in Statuses \cup {""} :
             (cmd_edit(MAIN_ADMIN_ID, id, d, t, st, TRUE)
              /\ ~(d = NULL /\ t = NULL /\ st = ""))
             => /\ sent'.to = bookings[id].user_id
                /\ sent'.id = id]_vars

\* C20: /edit of a stored booking sets the date, the time of day and the
\* status it was given and keeps each of them when it was not given, from
\* any status to any of the three and whatever slot the new time falls
\* into; actual_start, actual_end, program, customer, car and phone of the
\* row and all other rows stay as they are, and with no field given nothing
\* is written and nothing is sent.
C20_EditWritesGivenFields ==
    [][\A id \in RaceIds, d \in RescheduleDates, t \in RescheduleTexts,
         st \in Statuses \cup {""} :
          cmd_edit(MAIN_ADMIN_ID, id, d, t, st, TRUE)
          => IF d = NULL /\ t = NULL /\ st = ""
             THEN bookings' = bookings /\ sent' = NoMessage
             ELSE /\ DOMAIN bookings' = DOMAIN bookings
                  /\ DateOf(bookings'[id].booking_datetime) =
                        (IF d # NULL THEN d ELSE DateOf(bookings[id].booking_datetime))
                  /\ strftime(bookings'[id].booking_datetime) =
                        (IF t # NULL THEN t ELSE strftime(bookings[id].booking_datetime))
                  /\ bookings'[id].status =
                        (IF st # "" THEN st ELSE bookings[id].status)
                  /\ bookings'[id] =
                        [bookings[id] EXCEPT
                            !.booking_datetime = bookings'[id].booking_datetime,
                            !.status = bookings'[id].status]
                  /\ \A j \in DOMAIN bookings \ {id} : bookings'[j] = bookings[j]
                  /\ answer'.text = "booking changed"]_vars

\* a finished booking put back to scheduled and moved onto the hour of
\* booking 2: its actual times are kept and the two rows overlap
C20_Witness ==
    /\ answer.text = "booking changed"
    /\ sent.about = "edited"
    /\ sent.id = 1
    /\ bookings[1].status = "scheduled"
    /\ bookings[1].actual_start # NULL
    /\ bookings[1].actual_end # NULL
    /\ bookings[2].status = "scheduled"
    /\ bookings[1].booking_datetime = bookings[2].booking_datetime

\* the duration of the program of the stored booking i, zero when the
\* program is gone
DurationOfBooking(i) ==
    IF bookings[i].program_id \in DOMAIN programs
    THEN programs[bookings[i].program_id] ELSE 0

\* the start of the interval of the stored booking i
EffectiveStart(i) ==
    IF bookings[i].status = "scheduled" THEN bookings[i].booking_datetime
    ELSE IF bookings[i].actual_start # NULL THEN bookings[i].actual_start
    ELSE bookings[i].booking_datetime

\* the end of the interval of the stored booking i
EffectiveEnd(i) ==
    IF bookings[i].status = "scheduled"
    THEN bookings[i].booking_datetime + DurationOfBooking(i)
    ELSE IF bookings[i].actual_end # NULL THEN bookings[i].actual_end
    ELSE EffectiveStart(i) + DurationOfBooking(i)

\* the hours of the date that pass the filters and keep the buffer to the
\* interval of every stored booking whose nominal date is the date
HoursClearOfIntervals(p, date) ==
    {h \in WORK_START_HOUR..(WORK_END_HOUR - 1) :
        LET start == Combine(date, h * MinutesPerHour)
            end == start + programs[p]
        IN /\ (date = DateOf(now) => start >= now + BUFFER_MINUTES)
           /\ end <= Combine(date, WORK_END_HOUR * MinutesPerHour)
           /\ \A i \in DOMAIN bookings :
                  DateOf(bookings[i].booking_datetime) = date
                  => \/ end <= EffectiveStart(i) - BUFFER_MINUTES
                     \/ start >= EffectiveEnd(i) + BUFFER_MINUTES}

\* C21: the interval get_available_hours takes for a stored booking is the
\* nominal one for status scheduled, also when actual times are set, and
\* [actual_start or nominal start, actual_end or that start + duration) for
\* in_progress and finished; rows are taken by nominal date whatever their
\* status, and a row without program has duration zero.
C21_IntervalByStatus ==
    [][\A u \in OneCustomer, date \in IntervalDates :
          (ProcessDate(u, date) /\ user_booking[u].program_id \in DOMAIN programs)
          => answer'.keyboard =
                 Ascending(HoursClearOfIntervals(user_booking[u].program_id, date))]_vars

\* a scheduled booking at 10:00 with an actual_end before 11:00 blocks 11:00
\* by its nominal 90 minutes, next to a finished booking without program
C21_Witness ==
    \E u \in OneCustomer :
        /\ answer.text = "choose hour"
        /\ user_booking[u].booking_date = Today
        /\ DOMAIN bookings = {1, 2}
        /\ bookings[1].status = "scheduled"
        /\ bookings[1].actual_end # NULL
        /\ bookings[1].actual_end + BUFFER_MINUTES <= Combine(Today, 11 * MinutesPerHour)
        /\ DateOf(bookings[1].booking_datetime) = Today
        /\ bookings[2].program_id = NULL
        /\ DateOf(bookings[2].booking_datetime) = Today
        /\ now + BUFFER_MINUTES <= Combine(Today, 11 * MinutesPerHour)
        /\ ~Contains(answer.keyboard, 1100)
        /\ Contains(answer.keyboard, 1200)

\* C22: every stored booking starts at or after 09:00 of its nominal date
\* and its nominal start plus the duration of its program is at most 21:00
\* of that date.
C22_NominalWithinWindow ==
    \A i \in DOMAIN bookings :
        /\ TimeOf(bookings[i].booking_datetime) >= WORK_START_HOUR * MinutesPerHour
        /\ TimeOf(bookings[i].booking_datetime) + Pdur(programs, bookings[i])
               <= WORK_END_HOUR * MinutesPerHour

\* C23: when the transport refuses the message of /edit, of /delete or of
\* the deferred early-arrival action, the step writes the booking table and
\* answers its caller exactly as when the message is accepted, and the
\* message is not queued again: a deferred task is gone after its one try.
C23_DeliveryFailureSwallowed ==
    [][/\ \A id \in RaceIds, st \in DeliveryStatuses :
             (cmd_edit(MAIN_ADMIN_ID, id, NULL, NULL, st, FALSE)
              /\ id \in DOMAIN bookings /\ st # "")
             => /\ bookings' = [bookings EXCEPT ![id].status = st]
                /\ answer' = Say("booking changed")
                /\ tasks' = tasks
       /\ \A id \in DeliveryIds :
             (delete_booking(MAIN_ADMIN_ID, id, FALSE) /\ id \in DOMAIN bookings)
             => /\ bookings' = [i \in DOMAIN bookings \ {id} |-> bookings[i]]
                /\ answer' = Say("booking deleted")
                /\ tasks' = tasks
       /\ \A task \in tasks :
             delayed_notify(task, FALSE)
             => /\ bookings' = bookings
                /\ tasks' = tasks \ {task}
                /\ answer' = Say("")
                /\ handlers' = handlers]_vars

\* the message of an /edit that put the finished booking 1 back to scheduled
\* was refused, and the administrator was told the booking is changed
C23_Witness ==
    /\ sent.about = "edited"
    /\ ~sent.ok
    /\ sent.id = 1
    /\ answer.text = "booking changed"
    /\ bookings[1].status = "scheduled"
    /\ bookings[1].actual_end # NULL

\* C24: finish_wash writes the finished status and confirms it before
\* notify_next_after_buffer runs; the handler returns once the deferred task
\* is created, while its delay is still running; a query of
\* notify_next_after_buffer that raises and a deferred message that is
\* refused leave the finished status and the confirmation as they are and
\* give the administrator no error.
C24_NotifyNextIsFollowUp ==
    [][\A h \in OneHandler :
          /\ (FinishWashUpdate(h) /\ handlers[h].id \in DOMAIN bookings)
             => /\ bookings'[handlers[h].id].status = "finished"
                /\ answer' = Say("wash finished")
                /\ tasks' = tasks
          /\ (FinishWashNotify(h) /\ handlers[h].id \in DOMAIN bookings)
             => /\ handlers'[h] = Idle
                /\ bookings' = bookings
                /\ answer' = Say("")
                /\ sent' = NoMessage
                /\ (NextCandidates(handlers[h].id) # {}
                    => \E task \in tasks' : task.due >= now)
          /\ NotifyNextFails(h)
             => /\ handlers'[h] = Idle
                /\ bookings' = bookings
                /\ answer' = Say("")
          /\ \A task \in tasks :
                delayed_notify(task, FALSE)
                => /\ bookings' = bookings
                   /\ answer' = Say("")]_vars

\* finish_wash has returned and the deferred message still waits for its
\* delay
C24_Witness ==
    /\ \A h \in Handlers : handlers[h].pc = "idle"
    /\ 1 \in DOMAIN bookings
    /\ bookings[1].status = "finished"
    /\ bookings[1].actual_end = now
    /\ \E task \in tasks : task.due > now /\ task.id = 2

\* the early-arrival message for booking 2 is handed to the transport
EarlySentForNext ==
    /\ sent.about = "early"
    /\ sent.id = 2
    /\ sent.to = CustomerOf(2)

\* finish_wash has just written the finished status of booking 1 and
\* confirmed it, and booking 2 is eligible as the next one
FinishedWithNext ==
    \E h \in OneHandler :
        /\ handlers[h].pc = "notify_next"
        /\ handlers[h].id = 1
        /\ answer.text = "wash finished"
        /\ 1 \in DOMAIN bookings
        /\ 2 \in NextCandidates(1)

C26_OnlyFinishInvokes ==
    [][/\ \A h \in OneHandler :
             (handlers'[h].pc = "notify_next" /\ handlers[h].pc # "notify_next")
             => /\ FinishWashUpdate(h)
                /\ answer' = Say("wash finished")
                /\ handlers[h].id \in DOMAIN bookings
                /\ bookings'[handlers[h].id].status = "finished"
                /\ bookings'[handlers[h].id].actual_end = now
       /\ tasks' \ tasks # {} => \E h \in OneHandler : FinishWashNotify(h)
       /\ \A h \in OneHandler, id \in InvokeIds :
             /\ (StartWashBegin(h, MAIN_ADMIN_ID, id) \/ StartWashUpdate(h))
                => /\ tasks' = tasks
                   /\ handlers'[h].pc \notin {"finish_update", "notify_next"}
             /\ (/\ FinishWashBegin(h, MAIN_ADMIN_ID, id)
                 /\ (id \notin DOMAIN bookings \/ bookings[id].status = "finished"))
                => /\ tasks' = tasks
                   /\ handlers' = handlers
                   /\ bookings' = bookings
             /\ (\E st \in InvokeStatuses :
                    cmd_edit(MAIN_ADMIN_ID, id, NULL, NULL, st, TRUE))
                => /\ tasks' = tasks
                   /\ handlers' = handlers]_vars

\* finish_wash of booking 1, started earlier, has written finished and
\* actual_end and is about to call the notifier; no task exists yet
C26_Witness ==
    /\ \E h \in OneHandler : handlers[h] = [pc |-> "notify_next", id |-> 1]
    /\ answer.text = "wash finished"
    /\ bookings[1].status = "finished"
    /\ bookings[1].actual_end = now
    /\ bookings[1].actual_start # NULL
    /\ bookings[1].actual_start < now
    /\ bookings[2].status = "scheduled"
    /\ tasks = {}

\* C27: /start_wash, /finish_wash, /delete and /edit sent by a caller who is
\* neither the main admin nor in the admins table are answered "no rights"
\* and leave the booking table as it was.
C27_NonAdminRefused ==
    [][\A c \in RightsCallers, h \in OneHandler, id \in RaceIds :
          (/\ ~is_admin(c)
           /\ \/ StartWashBegin(h, c, id)
              \/ FinishWashBegin(h, c, id)
              \/ delete_booking(c, id, TRUE)
              \/ \E st \in InvokeStatuses : cmd_edit(c, id, NULL, NULL, st, TRUE))
          => /\ answer'.text = "no rights"
             /\ bookings' = bookings
             /\ handlers' = handlers]_vars

\* C28: in the wizard a time is recorded only when a program and a date are
\* recorded and the time is in get_available_hours for them at that moment;
\* the fields are recorded in the order program, date, time, vehicle number,
\* phone number; the INSERT writes one row built from the five fields and
\* removes the session.
C28_WizardOrder ==
    [][\A u \in OneCustomer :
          /\ (user_booking[u].booking_time = NULL
                 /\ user_booking'[u].booking_time # NULL)
             => /\ user_booking'[u].program_id # NULL
                /\ user_booking'[u].booking_date # NULL
                /\ Contains(get_available_hours(programs, bookings, now,
                                                user_booking'[u].program_id,
                                                user_booking'[u].booking_date),
                            user_booking'[u].booking_time)
          /\ user_booking'[u].booking_date # NULL => user_booking'[u].program_id # NULL
          /\ user_booking'[u].booking_time # NULL => user_booking'[u].booking_date # NULL
          /\ user_booking'[u].car_number # "" => user_booking'[u].booking_time # NULL
          /\ user_booking'[u].phone_number # NoPhone => user_booking'[u].car_number # ""
          /\ InsertBooking(u)
             => /\ inflight[u].data.program_id # NULL
                /\ inflight[u].data.booking_date # NULL
                /\ inflight[u].data.booking_time # NULL
                /\ inflight[u].data.car_number # ""
                /\ inflight[u].data.phone_number # NoPhone
                /\ DOMAIN bookings' = DOMAIN bookings \cup {next_id}
                /\ bookings'[next_id] = NewRow(u, inflight[u].data)
                /\ user_booking'[u] = NoSession
                /\ inflight'[u] = NoInsert]_vars

====
